---- MODULE Spec2Model ----
(***************************************************************************)
(* A model of functions_timestepping.py (stokesian-dynamics): the          *)
(* diagnostic checks, the ETA estimator, the periodic wrap and the mode    *)
(* dispatcher generate_output_FTSUOE.                                      *)
(*                                                                         *)
(* Conventions.  Python lists and numpy arrays are functions over          *)
(* 0..n-1, so that indices are the source's.  Real numbers are exact       *)
(* rationals <<numerator, denominator>> with a positive denominator;       *)
(* floating-point rounding is not modelled.  An exception leaving a        *)
(* function is a result whose status names the exception.                  *)
(***************************************************************************)
EXTENDS Integers, Sequences, FiniteSets

VARIABLES
    error,  \* the error flag threaded through the diagnostic checks
    diag,   \* the last diagnostic check: its arguments and what it returned
    wrap,   \* one axis of a position, of the periodic box, and of its wrapped images
    sim,    \* a run's clock: the frame times so far and the last estimate of time left
    call,   \* the last call of generate_output_FTSUOE: its arguments and its outcome
    step,   \* the last call of an integrator: its arguments and what it returned
    chain   \* the diagnostic checks called so far, each on the flag the last returned

vars == <<error, diag, wrap, sim, call, step, chain>>

(***************************************************************************)
(* Bounds of the model                                                     *)
(***************************************************************************)
MaxElements == 3    \* spheres plus dumbbells in a size-ratio check
MaxSize == 3        \* particle sizes are 1..MaxSize
MaxCheckedDumbbells == 2   \* dumbbells in an explosion check
MaxPos == 6         \* positions on an axis are -MaxPos..MaxPos
MaxCorner == 2      \* box corners on an axis are -MaxCorner..MaxCorner
MaxFrames == 5      \* num_frames is 1..MaxFrames
MaxEvery == 3       \* invert_m_every is 1..MaxEvery
MaxTime == 2        \* the time a frame takes is 1..MaxTime
MaxParticles == 3   \* spheres plus dumbbells in a matrix-based call
MaxDumbbells == 2   \* dumbbells in a Stokes-drag call
MaxForce == 1       \* bead forces in Stokes drag are 0..MaxForce
MaxOmega == 1       \* components of an angular velocity are -MaxOmega..MaxOmega
MaxScalar == 2      \* positions and velocities of a scalar step are -MaxScalar..MaxScalar
MaxChain == 3       \* diagnostic checks called one after the other

(***************************************************************************)
(* The values of the variables before anything has been called             *)
(***************************************************************************)
IdleDiag == [op |-> "none"]

IdleWrap == [pc |-> "idle"]

IdleSim == [pc |-> "idle"]

IdleCall == [pc |-> "idle"]

IdleStep == [op |-> "none"]

IdleChain == << >>

(***************************************************************************)
(* Helpers: lists as functions over 0..n-1, exact rationals                *)
(***************************************************************************)
PyLen(l) == Cardinality(DOMAIN l)

EmptyList == [i \in {} |-> 0]

PyAppend(l, x) == [i \in 0..PyLen(l) |-> IF i < PyLen(l) THEN l[i] ELSE x]

PyLists(S, n) == [0..(n - 1) -> S]

RatEq(a, b) == a[1] * b[2] = b[1] * a[2]

RatInv(a) == IF a[1] < 0 THEN <<-a[2], -a[1]>> ELSE <<a[2], a[1]>>

Abs(n) == IF n < 0 THEN -n ELSE n

RECURSIVE Gcd(_, _)
Gcd(a, b) == IF b = 0 THEN a ELSE Gcd(b, a % b)

\* a rational in lowest terms with a positive denominator
Rat(n, d) ==
    LET g == Gcd(Abs(n), Abs(d))
    IN  IF d < 0 THEN <<(-n) \div g, (-d) \div g>> ELSE <<n \div g, d \div g>>

RatAdd(a, b) == Rat(a[1] * b[2] + b[1] * a[2], a[2] * b[2])

RatSub(a, b) == Rat(a[1] * b[2] - b[1] * a[2], a[2] * b[2])

RatMul(a, b) == Rat(a[1] * b[1], a[2] * b[2])

RatDiv(a, b) == Rat(a[1] * b[2], a[2] * b[1])

RatLess(a, b) == a[1] * b[2] < b[1] * a[2]

RatLeq(a, b) == a[1] * b[2] <= b[1] * a[2]

\* np.mod(a, 1): the result has the sign of the divisor, so it is in [0, 1)
RatMod1(a) == Rat(a[1] % a[2], a[2])

Half == <<1, 2>>

(***************************************************************************)
(* do_we_have_all_size_ratios                                              *)
(***************************************************************************)
\* lambda_matrix = element_sizes / element_sizes[:, None]:
\* entry [i][j] is size j over size i
lambda_matrix(element_sizes) ==
    [i \in DOMAIN element_sizes |->
        [j \in DOMAIN element_sizes |-> <<element_sizes[j], element_sizes[i]>>]]

\* np.concatenate([lam_range, 1 / lam_range]), as the set np.in1d tests against
lam_range_including_reciprocals(lam_range) ==
    lam_range \cup {RatInv(l) : l \in lam_range}

\* np.in1d(lambda_matrix, ...).reshape([n, n])
do_we_have_it_matrix(element_sizes, lam_range) ==
    [i \in DOMAIN element_sizes |->
        [j \in DOMAIN element_sizes |->
            \E l \in lam_range_including_reciprocals(lam_range) :
                RatEq(lambda_matrix(element_sizes)[i][j], l)]]

\* np.where(do_we_have_it_matrix == 0): the row indices and the column indices
\* of the entries that are 0, in row-major order, from flat index k onwards
RECURSIVE WhereFrom(_, _, _)
WhereFrom(m, n, k) ==
    IF k >= n * n THEN [rows |-> EmptyList, cols |-> EmptyList]
    ELSE LET rest == WhereFrom(m, n, k + 1)
             i == k \div n
             j == k % n
         IN  IF m[i][j] THEN rest
             ELSE [rows |-> [x \in 0..PyLen(rest.rows) |->
                                IF x = 0 THEN i ELSE rest.rows[x - 1]],
                   cols |-> [x \in 0..PyLen(rest.cols) |->
                                IF x = 0 THEN j ELSE rest.cols[x - 1]]]

offending_elements(element_sizes, lam_range) ==
    WhereFrom(do_we_have_it_matrix(element_sizes, lam_range),
              PyLen(element_sizes), 0)

\* the label built for one reported index
offending_element_str(e, num_spheres) ==
    IF e >= num_spheres
    THEN [kind |-> "dumbbell", index |-> e - num_spheres]
    ELSE [kind |-> "sphere", index |-> e]

\* The two indices the function reads: offending_elements[0][0] and
\* offending_elements[0][1], both taken from the array of row indices.
ReportedSecond(off) == off.rows[1]

do_we_have_all_size_ratios(err, element_sizes, lam_range, num_spheres) ==
    LET off == offending_elements(element_sizes, lam_range)
    IN  IF PyLen(off.rows) > 0
        THEN IF PyLen(off.rows) < 2
             THEN [status |-> "IndexError"]
             ELSE [status |-> "returned",
                   error |-> TRUE,
                   printed |-> TRUE,
                   elements |-> <<off.rows[0], ReportedSecond(off)>>,
                   offending_lambda_1 |->
                       lambda_matrix(element_sizes)[off.rows[0]][ReportedSecond(off)],
                   str |-> <<offending_element_str(off.rows[0], num_spheres),
                             offending_element_str(ReportedSecond(off), num_spheres)>>]
        ELSE [status |-> "returned", error |-> err, printed |-> FALSE]

\* the lookup tables a run may supply: integer ratios 1..MaxSize
LamRanges == SUBSET {<<a, 1>> : a \in 1..MaxSize}

SizeRatioCheck ==
    /\ diag.op = "none"
    /\ \E n \in 1..MaxElements :
       \E element_sizes \in PyLists(1..MaxSize, n) :
       \E lam_range \in LamRanges :
       \E num_spheres \in 0..n :
        LET r == do_we_have_all_size_ratios(error, element_sizes, lam_range, num_spheres)
        IN  /\ diag' = [op |-> "do_we_have_all_size_ratios",
                        error_in |-> error,
                        element_sizes |-> element_sizes,
                        lam_range |-> lam_range,
                        num_spheres |-> num_spheres,
                        result |-> r]
            /\ error' = IF r.status = "returned" THEN r.error ELSE error
    /\ UNCHANGED <<wrap, sim, call, step, chain>>

(***************************************************************************)
(* did_something_go_wrong_with_dumbells                                    *)
(***************************************************************************)
ExplosionThreshold == 5   \* the length a dumbbell must not exceed
RoundDecimals == 4        \* np.round(..., 4) of the cosine

Dot(a, b) == a[1] * b[1] + a[2] * b[2] + a[3] * b[3]

\* np.linalg.norm(v) > ExplosionThreshold, for a vector of integers: the
\* square root is monotone and exact on perfect squares
NormExceedsMutGE(v) == Dot(v, v) >= ExplosionThreshold * ExplosionThreshold

NormExceeds(v) == Dot(v, v) > ExplosionThreshold * ExplosionThreshold

\* np.arccos(np.round(dot / (norm * norm), 4)) > np.pi / 2: the rounded cosine
\* is negative, i.e. the cosine is below -0.5 * 10^-4.  A zero vector gives
\* nan, and every comparison with nan is False.
RotatedTooFar(old, new) ==
    LET d == Dot(old, new)
    IN  /\ d < 0
        /\ (Dot(old, old) * Dot(new, new)) \div (d * d) < 4 * 10 ^ (2 * RoundDecimals)

\* the body of the loop for dumbbell i, given the state r of the loop so far
DumbbellLoopBody(r, i, dumbbell_deltax, new_dumbbell_deltax, explosion_protection) ==
    [error |-> IF explosion_protection /\ NormExceeds(new_dumbbell_deltax[i])
               THEN TRUE ELSE r.error,
     code_point_H |-> IF RotatedTooFar(dumbbell_deltax[i], new_dumbbell_deltax[i])
                      THEN r.code_point_H \cup {i} ELSE r.code_point_H,
     printed_error |-> IF explosion_protection /\ NormExceeds(new_dumbbell_deltax[i])
                       THEN r.printed_error \cup {i} ELSE r.printed_error]

\* the loop over range(new_dumbbell_deltax.shape[0]), up to and excluding i
RECURSIVE DumbbellLoop(_, _, _, _, _)
DumbbellLoop(err, i, dumbbell_deltax, new_dumbbell_deltax, explosion_protection) ==
    IF i = 0
    THEN [error |-> err, code_point_H |-> {}, printed_error |-> {}]
    ELSE DumbbellLoopBody(
             DumbbellLoop(err, i - 1, dumbbell_deltax, new_dumbbell_deltax,
                          explosion_protection),
             i - 1, dumbbell_deltax, new_dumbbell_deltax, explosion_protection)

did_something_go_wrong_with_dumbells(err, dumbbell_deltax, new_dumbbell_deltax, explosion_protection) ==
    LET r == DumbbellLoop(err, PyLen(new_dumbbell_deltax), dumbbell_deltax,
                          new_dumbbell_deltax, explosion_protection)
    IN  [status |-> "returned", error |-> r.error,
         code_point_H |-> r.code_point_H, printed_error |-> r.printed_error]

\* the displacements a step may leave a dumbbell with: lengths 0, 4, 5,
\* sqrt(32) and 6, some of them turned by more than a right angle
NewDeltaxValues ==
    {<<0, 0, 0>>, <<4, 0, 0>>, <<3, 4, 0>>, <<-3, 4, 0>>, <<0, 4, 4>>,
     <<6, 0, 0>>, <<-6, 0, 0>>, <<-4, 0, 0>>}

OldDeltaxValues == {<<1, 0, 0>>, <<0, 0, 2>>}

DumbbellCheck ==
    /\ diag.op = "none"
    /\ \E n \in 0..MaxCheckedDumbbells :
       \E dumbbell_deltax \in PyLists(OldDeltaxValues, n) :
       \E new_dumbbell_deltax \in PyLists(NewDeltaxValues, n) :
       \E explosion_protection \in BOOLEAN :
        LET r == did_something_go_wrong_with_dumbells(
                     error, dumbbell_deltax, new_dumbbell_deltax, explosion_protection)
        IN  /\ diag' = [op |-> "did_something_go_wrong_with_dumbells",
                        error_in |-> error,
                        dumbbell_deltax |-> dumbbell_deltax,
                        new_dumbbell_deltax |-> new_dumbbell_deltax,
                        explosion_protection |-> explosion_protection,
                        result |-> r]
            /\ error' = r.error
    /\ UNCHANGED <<wrap, sim, call, step, chain>>

(***************************************************************************)
(* wrap_around, for an axis-aligned box without shear.  The basis is then  *)
(* diagonal, np.dot by it and by its inverse act on each axis separately,  *)
(* and the model follows one axis.                                         *)
(***************************************************************************)
\* shear_basis_vectors (functions_shared): without shear the basis is the
\* canonical one, np.diag(box_dimensions)
shear_basis_vectors(basis_canonical) == basis_canonical

wrap_aroundMutNoShift(new_sphere_positions, box_bottom_left, box_top_right) ==
    LET box_dimensions == RatSub(box_top_right, box_bottom_left)
        sheared_basis_vectors == shear_basis_vectors(box_dimensions)
    IN  RatMul(RatMod1(RatDiv(new_sphere_positions, sheared_basis_vectors)),
               sheared_basis_vectors)

wrap_aroundMutNoAdd(new_sphere_positions, box_bottom_left, box_top_right) ==
    LET box_dimensions == RatSub(box_top_right, box_bottom_left)
        sheared_basis_vectors == shear_basis_vectors(box_dimensions)
    IN  RatMul(RatSub(RatMod1(RatDiv(new_sphere_positions, sheared_basis_vectors)),
                      Half),
               sheared_basis_vectors)

\* np.dot(np.mod(np.dot(x, inv(basis)) + 0.5, [1, 1, 1]) - 0.5, basis)
wrap_around(new_sphere_positions, box_bottom_left, box_top_right) ==
    LET box_dimensions == RatSub(box_top_right, box_bottom_left)
        sheared_basis_vectors == shear_basis_vectors(box_dimensions)
    IN  RatMul(RatSub(RatMod1(RatAdd(RatDiv(new_sphere_positions,
                                            sheared_basis_vectors),
                                     Half)),
                      Half),
               sheared_basis_vectors)

\* a position is wrapped into a box whose corners differ
Wrap ==
    /\ wrap.pc = "idle"
    /\ \E x \in -MaxPos..MaxPos :
       \E bl \in -MaxCorner..MaxCorner :
       \E tr \in -MaxCorner..MaxCorner :
          /\ bl # tr
          /\ wrap' = [pc |-> "wrapped",
                      position |-> <<x, 1>>,
                      box_bottom_left |-> <<bl, 1>>,
                      box_top_right |-> <<tr, 1>>,
                      wrapped |-> wrap_around(<<x, 1>>, <<bl, 1>>, <<tr, 1>>)]
    /\ UNCHANGED <<error, diag, sim, call, step, chain>>

\* the wrapped position is wrapped again, with the same box
Rewrap ==
    /\ wrap.pc = "wrapped"
    /\ wrap' = [wrap EXCEPT !.pc = "rewrapped",
                            !.position = wrap.wrapped,
                            !.wrapped = wrap_around(wrap.wrapped, wrap.box_bottom_left,
                                                    wrap.box_top_right)]
    /\ UNCHANGED <<error, diag, sim, call, step, chain>>

(***************************************************************************)
(* calculate_time_left                                                     *)
(***************************************************************************)
FudgeFactor == <<103, 100>>   \* the 1.03 the estimate is multiplied by

RECURSIVE SeqSum(_)
SeqSum(l) == IF l = <<>> THEN 0 ELSE Head(l) + SeqSum(Tail(l))

IsLongFrameMutNoStart(i, invert_m_every, checkpoint_start_from_frame) ==
    i % invert_m_every = 0

\* the condition of the longtimes comprehension
IsLongFrame(i, invert_m_every, checkpoint_start_from_frame) ==
    i % invert_m_every = 0 \/ i = checkpoint_start_from_frame

\* the condition of the shorttimes comprehension
IsShortFrame(i, invert_m_every, checkpoint_start_from_frame) ==
    i % invert_m_every # 0 /\ i # checkpoint_start_from_frame

\* [times[i] for i in range(lo, hi) if IsLongFrame(i)]
RECURSIVE LongTimesRange(_, _, _, _, _)
LongTimesRange(times, lo, hi, invert_m_every, checkpoint_start_from_frame) ==
    IF lo >= hi THEN <<>>
    ELSE (IF IsLongFrame(lo, invert_m_every, checkpoint_start_from_frame)
          THEN <<times[lo]>> ELSE <<>>)
         \o LongTimesRange(times, lo + 1, hi, invert_m_every,
                           checkpoint_start_from_frame)

\* [times[i] for i in range(lo, hi) if IsShortFrame(i)]
RECURSIVE ShortTimesRange(_, _, _, _, _)
ShortTimesRange(times, lo, hi, invert_m_every, checkpoint_start_from_frame) ==
    IF lo >= hi THEN <<>>
    ELSE (IF IsShortFrame(lo, invert_m_every, checkpoint_start_from_frame)
          THEN <<times[lo]>> ELSE <<>>)
         \o ShortTimesRange(times, lo + 1, hi, invert_m_every,
                            checkpoint_start_from_frame)

\* len([i for i in range(lo, hi) if i % invert_m_every == 0]) when long,
\* and with != when not long
RECURSIVE CountLeft(_, _, _, _)
CountLeft(lo, hi, invert_m_every, long) ==
    IF lo >= hi THEN 0
    ELSE (IF (lo % invert_m_every = 0) = long THEN 1 ELSE 0)
         + CountLeft(lo + 1, hi, invert_m_every, long)

\* the branches on numba.config.DISABLE_JIT and on len(longtimes)
LongTimeAverage(longtimes, disable_jit) ==
    IF ~disable_jit
    THEN IF Len(longtimes) >= 2
         THEN [avg |-> Rat(SeqSum(Tail(longtimes)), Len(Tail(longtimes))), flag |-> <<>>]
         ELSE IF Len(longtimes) = 1
              THEN [avg |-> <<longtimes[1], 1>>, flag |-> <<"<">>]
              ELSE [avg |-> <<0, 1>>, flag |-> <<>>]
    ELSE IF Len(longtimes) > 0
         THEN [avg |-> Rat(SeqSum(longtimes), Len(longtimes)), flag |-> <<>>]
         ELSE [avg |-> <<0, 1>>, flag |-> <<>>]

ShortTimeAverage(shorttimes, longtimeaverage) ==
    IF Len(shorttimes) # 0
    THEN Rat(SeqSum(shorttimes), Len(shorttimes))
    ELSE longtimeaverage

calculate_time_left(times, frameno, num_frames, invert_m_every, checkpoint_start_from_frame, disable_jit) ==
    LET longtimes == LongTimesRange(times, checkpoint_start_from_frame, frameno + 1,
                                    invert_m_every, checkpoint_start_from_frame)
        long == LongTimeAverage(longtimes, disable_jit)
        longtimeaverage == long.avg
        shorttimes == ShortTimesRange(times, checkpoint_start_from_frame, frameno + 1,
                                      invert_m_every, checkpoint_start_from_frame)
        shorttimeaverage == ShortTimeAverage(shorttimes, longtimeaverage)
        numberoflongtimesleft == CountLeft(frameno + 1, num_frames, invert_m_every, TRUE)
        numberofshorttimesleft == CountLeft(frameno + 1, num_frames, invert_m_every, FALSE)
        timeleft == RatMul(RatAdd(RatMul(<<numberofshorttimesleft, 1>>, shorttimeaverage),
                                  RatMul(<<numberoflongtimesleft, 1>>, longtimeaverage)),
                           FudgeFactor)
        no_short_times_yet_flag ==
            IF frameno - checkpoint_start_from_frame = 0 /\ numberofshorttimesleft > 0
            THEN <<"<">> ELSE <<>>
    IN  [timeleft |-> timeleft, flags |-> long.flag \o no_short_times_yet_flag]

\* a run of num_frames frames starts, or restarts from a checkpoint; no
\* frame has been timed yet
StartRun ==
    /\ sim.pc = "idle"
    /\ \E num_frames \in 1..MaxFrames :
       \E invert_m_every \in 1..MaxEvery :
       \E checkpoint_start_from_frame \in 0..(num_frames - 1) :
       \E disable_jit \in BOOLEAN :
          sim' = [pc |-> "running",
                  times |-> [i \in 0..(num_frames - 1) |-> 0],
                  frameno |-> checkpoint_start_from_frame - 1,
                  num_frames |-> num_frames,
                  invert_m_every |-> invert_m_every,
                  checkpoint_start_from_frame |-> checkpoint_start_from_frame,
                  disable_jit |-> disable_jit,
                  eta |-> [timeleft |-> <<0, 1>>, flags |-> <<>>]]
    /\ UNCHANGED <<error, diag, wrap, call, step, chain>>

\* the next frame is timed and the time left is estimated
Frame ==
    /\ sim.pc = "running"
    /\ sim.frameno + 1 < sim.num_frames
    /\ \E t \in 1..MaxTime :
          LET frameno == sim.frameno + 1
              times == [sim.times EXCEPT ![frameno] = t]
          IN  sim' = [sim EXCEPT
                        !.times = times,
                        !.frameno = frameno,
                        !.eta = calculate_time_left(
                                    times, frameno, sim.num_frames, sim.invert_m_every,
                                    sim.checkpoint_start_from_frame, sim.disable_jit)]
    /\ UNCHANGED <<error, diag, wrap, call, step, chain>>


(***************************************************************************)
(* generate_output_FTSUOE.  A per-particle quantity (a 3-vector, or a      *)
(* stresslet) is one value: Pippa when it is the unset sentinel            *)
(* ['pippa', 'pippa', 'pippa'], Chen when it is the placeholder, and       *)
(* otherwise a tuple that names the number: <<list, supplier call, i>> for *)
(* a prescribed one, <<"solved", part, i>> for entry i of a part of the    *)
(* solution vector, <<"num", n, d>> for a computed n/d.  The matrices and  *)
(* the linear solve are opaque.                                            *)
(***************************************************************************)
Pippa == <<"pippa">>

Chen == <<"chen">>

Unbound == <<"unbound">>    \* a local variable that was never assigned

Modes == {"fts", "fte", "ufte", "ufteu", "duf", "stokes_drag_dumbbells_only"}

\* l[a:b], for 0 <= a
PySlice(l, a, b) ==
    LET hi == IF b < PyLen(l) THEN b ELSE PyLen(l)
    IN  [i \in 0..(hi - a - 1) |-> l[a + i]]

\* l1 + l2, of lists
PyConcat(l1, l2) ==
    [i \in 0..(PyLen(l1) + PyLen(l2) - 1) |->
        IF i < PyLen(l1) THEN l1[i] ELSE l2[i - PyLen(l1)]]

\* l.count(x)
PyCount(l, x) == Cardinality({i \in DOMAIN l : l[i] = x})

\* a / b of two ints: Python 3's true division, whose result is a float
PyTrueDiv(a, b) == [type |-> "float", value |-> Rat(a, b)]

\* an index or a shape must be an int
IsIndex(x) == x.type = "int"

HasSentinel(l) == \E i \in DOMAIN l : l[i] \in {Pippa, Chen}

\* construct_force_vector_from_fts (functions_simulation_tools): the flat
\* excitation vector, here the five lists it packs; it fails when an entry
\* is unset
construct_force_vector_from_fts(f_spheres, t_spheres, s_spheres, f_dumbbells, deltaf_dumbbells) ==
    IF \/ HasSentinel(f_spheres) \/ HasSentinel(t_spheres) \/ HasSentinel(s_spheres)
       \/ HasSentinel(f_dumbbells) \/ HasSentinel(deltaf_dumbbells)
    THEN [ok |-> FALSE]
    ELSE [ok |-> TRUE,
          vector |-> <<f_spheres, t_spheres, s_spheres, f_dumbbells, deltaf_dumbbells>>]

\* deconstruct_velocity_vector_for_fts (functions_simulation_tools): the five
\* lists unpacked from the solution vector
deconstruct_velocity_vector_for_fts(num_spheres, num_dumbbells) ==
    <<[i \in 0..(num_spheres - 1) |-> <<"solved", 1, i>>],
      [i \in 0..(num_spheres - 1) |-> <<"solved", 2, i>>],
      [i \in 0..(num_spheres - 1) |-> <<"solved", 3, i>>],
      [i \in 0..(num_dumbbells - 1) |-> <<"solved", 4, i>>],
      [i \in 0..(num_dumbbells - 1) |-> <<"solved", 5, i>>]>>

\* the local variables after line 245; b is what input_ftsuoe returned in
\* skip_computation mode
LocalsAtStart(a) ==
    [Fa_out |-> Unbound, Ta_out |-> Unbound, Sa_out |-> Unbound,
     Fb_out |-> Unbound, DFb_out |-> Unbound, Ua_out |-> Unbound,
     Oa_out |-> Unbound, Ea_out |-> Unbound, Ub_out |-> Unbound,
     HalfDUb_out |-> Unbound,
     inputs |-> a.first,
     last_generated_Minfinity_inverse |-> a.last_generated_Minfinity_inverse,
     gen_times |-> Unbound,
     force_on_wall_due_to_dumbbells |-> <<"num", 0, 1>>,
     matrix |-> "none",
     exception |-> "none",
     calls |-> <<"input_ftsuoe(skip_computation=True)">>]

Raise(env, exc) == [env EXCEPT !.exception = exc]

Called(env, what) == [env EXCEPT !.calls = Append(env.calls, what)]

\* throw_error (functions_shared): reports a fatal configuration error
throw_error(env) == Raise(Called(env, "throw_error"), "ConfigurationError")

Num(r) == <<"num", r[1], r[2]>>

Val(x) == <<x[2], x[3]>>

\* the stokes_drag_dumbbells_only branch
StokesDragBranch(a, env0) ==
    LET env == Called(env0, "solve_time_start")
        b == env.inputs
        m == PyLen(b.Fb_in)
    IN  IF HasSentinel(b.Fb_in) \/ HasSentinel(b.DFb_in)
        THEN Raise(env, "TypeError")     \* arrays of strings cannot be added
        ELSE IF PyLen(a.dumbbell_sizes) = 0
        THEN Raise(env, "IndexError")    \* dumbbell_sizes[0]
        ELSE
        LET Fbeads == [i \in 0..(2 * m - 1) |->
                         IF i < m
                         THEN RatMul(Half, RatAdd(Val(b.Fb_in[i]), Val(b.DFb_in[i])))
                         ELSE RatMul(Half, RatSub(Val(b.Fb_in[i - m]), Val(b.DFb_in[i - m])))]
            drag_coeff == b.mu * a.dumbbell_sizes[0]
            Ubeads == [i \in DOMAIN Fbeads |-> RatDiv(Fbeads[i], <<drag_coeff, 1>>)]
            Nbeads == PyLen(Fbeads)
            copied == [env EXCEPT !.Fa_out = b.Fa_in, !.Ta_out = b.Ta_in,
                                  !.Sa_out = b.Sa_in, !.Fb_out = b.Fb_in,
                                  !.DFb_out = b.DFb_in, !.Ua_out = b.Fa_in,
                                  !.Oa_out = b.Fa_in, !.Ea_out = b.Ea_in]
            half == PyTrueDiv(Nbeads, 2)
        IN  IF ~IsIndex(half)
            THEN Raise(copied, "TypeError")   \* Ubeads[:Nbeads/2]
            ELSE [copied EXCEPT
                    !.Ub_out = [i \in 0..(half.value - 1) |->
                        Num(RatMul(Half, RatAdd(Ubeads[i], Ubeads[half.value + i])))],
                    !.HalfDUb_out = [i \in 0..(half.value - 1) |->
                        Num(RatMul(Half, RatSub(Ubeads[i], Ubeads[half.value + i])))],
                    !.gen_times = <<"0", "0", "0">>]

\* the matrix generator is called, the periodic one when the box corners
\* differ, and then the solve timer is started
GenerateMatrix(a, env) ==
    LET b == env.inputs
        gen == IF b.periodic THEN "generate_grand_resistance_matrix_periodic"
               ELSE "generate_grand_resistance_matrix"
    IN  IF b.periodic /\ PyLen(b.Ea_in) = 0
        THEN Raise(env, "IndexError")    \* E_infinity=Ea_in[0]
        ELSE Called([Called(env, gen) EXCEPT
                        !.matrix = "fts",
                        !.last_generated_Minfinity_inverse = "returned_by_generator",
                        !.gen_times = <<"gen_time", "gen_time", "gen_time">>],
                    "solve_time_start")

Construct(args) ==
    construct_force_vector_from_fts(args[1], args[2], args[3], args[4], args[5])

Solve(env, how) ==
    Called(Called(env, how), "deconstruct_velocity_vector_for_fts")

FTSForceArgsMutTorque(b) == <<b.Fa_in, b.Fa_in, b.Sa_in, b.Fb_in, b.DFb_in>>

\* what the fts branch passes to construct_force_vector_from_fts
FTSForceArgs(b) == <<b.Fa_in, b.Ta_in, b.Sa_in, b.Fb_in, b.DFb_in>>

\* what the fte branch passes to construct_force_vector_from_fts
FTEForceArgs(b) == <<b.Fa_in, b.Ta_in, b.Ea_in, b.Fb_in, b.DFb_in>>

FTSBranch(a, env0) ==
    LET b == env0.inputs
        num_spheres == PyLen(b.Ua_in)
        force_vector == Construct(FTSForceArgs(b))
        env == Called(env0, "construct_force_vector_from_fts")
        d == deconstruct_velocity_vector_for_fts(a.num_spheres, a.num_dumbbells)
    IN  IF ~force_vector.ok THEN throw_error(env)
        ELSE [Solve(env, "np.linalg.solve") EXCEPT
                !.Ua_out = d[1], !.Oa_out = d[2],
                !.Ea_out = IF num_spheres = 0 THEN b.Ea_in ELSE d[3],
                !.Ub_out = d[4], !.HalfDUb_out = d[5],
                !.Fa_out = b.Fa_in, !.Ta_out = b.Ta_in, !.Sa_out = b.Sa_in,
                !.Fb_out = b.Fb_in, !.DFb_out = b.DFb_in]

input_ftsuoeMutSkipped(a) == a.first

\* what input_ftsuoe returns when called in full, with the reordered matrix
input_ftsuoe(a) == a.second

FTEBranch(a, env0) ==
    LET reordered == [Called(env0, "fts_to_fte_matrix") EXCEPT !.matrix = "fte"]
        \* the inputs are fetched again, in full, with the reordered matrix
        again == [Called(reordered, "input_ftsuoe(grand_resistance_matrix_fte)")
                     EXCEPT !.inputs = input_ftsuoe(a)]
        b == again.inputs
        force_vector == Construct(FTEForceArgs(b))
        env == Called(again, "construct_force_vector_from_fts")
        d == deconstruct_velocity_vector_for_fts(a.num_spheres, a.num_dumbbells)
    IN  IF ~force_vector.ok THEN throw_error(env)
        ELSE [Solve(env, "np.linalg.solve") EXCEPT
                !.Ua_out = d[1], !.Oa_out = d[2], !.Sa_out = d[3],
                !.Ub_out = d[4], !.HalfDUb_out = d[5],
                !.Fa_out = b.Fa_in, !.Ta_out = b.Ta_in,
                !.Ea_out = b.Ea_in,
                !.Fb_out = b.Fb_in, !.DFb_out = b.DFb_in]

\* num - vel_in.count(['pippa', 'pippa', 'pippa'])
num_fixed_velocity(vel_in, num) == num - PyCount(vel_in, Pippa)

MixedInputMutForceOnly(vel_in, force_in, num_fixed, num) == PySlice(force_in, 0, num)

\* vel_in[0:num_fixed] + force_in[num_fixed:num]
MixedInput(vel_in, force_in, num_fixed, num) ==
    PyConcat(PySlice(vel_in, 0, num_fixed), PySlice(force_in, num_fixed, num))

\* l[lo:hi] = src
SliceAssign(l, lo, hi, src) ==
    PyConcat(PyConcat(PySlice(l, 0, lo), src), PySlice(l, hi, PyLen(l)))

SplitOutputMutReversed(first, rest, num_fixed, num) ==
    [i \in 0..(num - 1) |-> IF i < num_fixed THEN first[num_fixed - 1 - i]
                                             ELSE rest[num - 1 - (i - num_fixed)]]

\* out = [chen] * num; out[0:num_fixed] = first[0:num_fixed];
\* out[num_fixed:num] = rest[num_fixed:num]
SplitOutput(first, rest, num_fixed, num) ==
    SliceAssign(SliceAssign([i \in 0..(num - 1) |-> Chen],
                            0, num_fixed, PySlice(first, 0, num_fixed)),
                num_fixed, num, PySlice(rest, num_fixed, num))

UFTEBranch(a, env0) ==
    LET b == env0.inputs
        num_spheres == PyLen(b.Ua_in)
        num_fixed_velocity_spheres == num_fixed_velocity(b.Ua_in, num_spheres)
        force_vector ==
            Construct(<<MixedInput(b.Ua_in, b.Fa_in, num_fixed_velocity_spheres, num_spheres),
                        b.Ta_in, b.Ea_in, b.Fb_in, b.DFb_in>>)
        env == Called(env0, "construct_force_vector_from_fts")
        reordered == [Called(Called(env, "fts_to_fte_matrix"), "fte_to_ufte_matrix")
                         EXCEPT !.matrix = "ufte"]
        d == deconstruct_velocity_vector_for_fts(a.num_spheres, a.num_dumbbells)
        solved ==
            IF a.extract_force_on_wall_due_to_dumbbells
            THEN Called(reordered, "np.linalg.inv")
            ELSE [Solve(reordered, "np.linalg.solve") EXCEPT
                    !.Oa_out = d[2], !.Sa_out = d[3],
                    !.Ub_out = d[4], !.HalfDUb_out = d[5],
                    !.Fa_out = SplitOutput(d[1], b.Fa_in,
                                           num_fixed_velocity_spheres, num_spheres),
                    !.Ua_out = SplitOutput(b.Ua_in, d[1],
                                           num_fixed_velocity_spheres, num_spheres),
                    !.Ta_out = b.Ta_in, !.Ea_out = b.Ea_in,
                    !.Fb_out = b.Fb_in, !.DFb_out = b.DFb_in]
        \* len(force_on_wall_due_to_dumbbells_flat) / 3, the first dimension
        \* given to reshape
        rows == PyTrueDiv(3 * num_fixed_velocity_spheres, 3)
    IN  IF ~force_vector.ok THEN throw_error(env)
        ELSE IF a.extract_force_on_wall_due_to_dumbbells
        THEN IF ~IsIndex(rows)
             THEN Raise(solved, "TypeError")
             ELSE [solved EXCEPT !.force_on_wall_due_to_dumbbells =
                                    <<"mobility_block_times_dumbbell_forces", rows.value>>]
        ELSE solved

UFTEUExtractionMutSignal(env, extract) ==
    IF extract
    THEN [env EXCEPT !.force_on_wall_due_to_dumbbells = <<"unsupported">>]
    ELSE env

\* the end of the ufteu branch: extraction is only warned about
UFTEUExtraction(env, extract) ==
    IF extract
    THEN Called(env, "print(WARNING: Cannot extract force on wall due to dumbbells in UFTEU mode)")
    ELSE env

UFTEUBranch(a, env0) ==
    LET b == env0.inputs
        num_spheres == PyLen(b.Ua_in)
        num_dumbbells == PyLen(b.Ub_in)
        num_fixed_velocity_spheres == num_fixed_velocity(b.Ua_in, num_spheres)
        num_fixed_velocity_dumbbells == num_fixed_velocity(b.Ub_in, num_dumbbells)
        force_vector ==
            Construct(<<MixedInput(b.Ua_in, b.Fa_in, num_fixed_velocity_spheres, num_spheres),
                        b.Ta_in, b.Ea_in,
                        MixedInput(b.Ub_in, b.Fb_in, num_fixed_velocity_dumbbells, num_dumbbells),
                        MixedInput(b.HalfDUb_in, b.DFb_in, num_fixed_velocity_dumbbells,
                                   num_dumbbells)>>)
        env == Called(env0, "construct_force_vector_from_fts")
        reordered == [Called(Called(Called(env, "fts_to_fte_matrix"), "fte_to_ufte_matrix"),
                             "ufte_to_ufteu_matrix")
                         EXCEPT !.matrix = "ufteu"]
        d == deconstruct_velocity_vector_for_fts(a.num_spheres, a.num_dumbbells)
    IN  IF ~force_vector.ok THEN throw_error(env)
        ELSE UFTEUExtraction(
               [Solve(reordered, "np.linalg.solve") EXCEPT
                  !.Oa_out = d[2], !.Sa_out = d[3],
                  !.Fa_out = SplitOutput(d[1], b.Fa_in,
                                         num_fixed_velocity_spheres, num_spheres),
                  !.Ua_out = SplitOutput(b.Ua_in, d[1],
                                         num_fixed_velocity_spheres, num_spheres),
                  !.Ta_out = b.Ta_in, !.Ea_out = b.Ea_in,
                  !.Fb_out = SplitOutput(d[4], b.Fb_in,
                                         num_fixed_velocity_dumbbells, num_dumbbells),
                  !.Ub_out = SplitOutput(b.Ub_in, d[4],
                                         num_fixed_velocity_dumbbells, num_dumbbells),
                  !.DFb_out = SplitOutput(d[5], b.DFb_in,
                                          num_fixed_velocity_dumbbells, num_dumbbells),
                  !.HalfDUb_out = SplitOutput(b.HalfDUb_in, d[5],
                                              num_fixed_velocity_dumbbells, num_dumbbells)],
               a.extract_force_on_wall_due_to_dumbbells)

DUFBranch(a, env0) ==
    LET b == env0.inputs
        num_dumbbells == PyLen(b.Ub_in)
        num_fixed_velocity_dumbbells == num_fixed_velocity(b.Ub_in, num_dumbbells)
        force_vector ==
            Construct(<<b.Fa_in, b.Ta_in, b.Ea_in,
                        MixedInput(b.Ub_in, b.Fb_in, num_fixed_velocity_dumbbells, num_dumbbells),
                        MixedInput(b.HalfDUb_in, b.DFb_in, num_fixed_velocity_dumbbells,
                                   num_dumbbells)>>)
        env == Called(env0, "construct_force_vector_from_fts")
        reordered == [Called(env, "fts_to_duf_matrix") EXCEPT !.matrix = "duf"]
        d == deconstruct_velocity_vector_for_fts(a.num_spheres, a.num_dumbbells)
    IN  IF ~force_vector.ok THEN throw_error(env)
        ELSE [Solve(reordered, "np.linalg.solve") EXCEPT
                !.Sa_out = d[3],
                !.Fb_out = SplitOutput(d[4], b.Fb_in,
                                       num_fixed_velocity_dumbbells, num_dumbbells),
                !.Ub_out = SplitOutput(b.Ub_in, d[4],
                                       num_fixed_velocity_dumbbells, num_dumbbells),
                !.DFb_out = SplitOutput(d[5], b.DFb_in,
                                        num_fixed_velocity_dumbbells, num_dumbbells),
                !.HalfDUb_out = SplitOutput(b.HalfDUb_in, d[5],
                                            num_fixed_velocity_dumbbells, num_dumbbells),
                !.Fa_out = b.Fa_in, !.Ta_out = b.Ta_in, !.Ea_out = b.Ea_in,
                !.Ua_out = EmptyList, !.Oa_out = EmptyList]

\* the outputs converted by np.asarray(..., float) after a matrix-based branch
ConvertedToFloat ==
    {"Fa_out", "Ta_out", "Ea_out", "Ua_out", "Oa_out", "Ub_out", "HalfDUb_out"}

ReturnedOutputs ==
    ConvertedToFloat \cup {"Sa_out", "Fb_out", "DFb_out"}

\* from the conversions to the return statement
Finish(a, env) ==
    LET matrix_based == a.input_form # "stokes_drag_dumbbells_only"
        timed == [Called(env, "elapsed_solve_time") EXCEPT
                     !.gen_times = Append(env.gen_times, "elapsed_solve_time")]
    IN  IF env.exception # "none"
        THEN [status |-> env.exception, calls |-> env.calls]
        ELSE IF matrix_based /\ \E f \in ConvertedToFloat : env[f] = Unbound
        THEN [status |-> "UnboundLocalError", calls |-> env.calls]
        ELSE IF matrix_based /\ \E f \in ConvertedToFloat : HasSentinel(env[f])
        THEN [status |-> "ValueError", calls |-> env.calls]
        ELSE IF \E f \in ReturnedOutputs : env[f] = Unbound
        THEN [status |-> "UnboundLocalError", calls |-> timed.calls]
        ELSE [status |-> "returned", calls |-> timed.calls,
              Fa_out |-> env.Fa_out, Ta_out |-> env.Ta_out, Sa_out |-> env.Sa_out,
              Fb_out |-> env.Fb_out, DFb_out |-> env.DFb_out,
              Ua_out |-> env.Ua_out, Oa_out |-> env.Oa_out, Ea_out |-> env.Ea_out,
              Ub_out |-> env.Ub_out, HalfDUb_out |-> env.HalfDUb_out,
              last_generated_Minfinity_inverse |-> env.last_generated_Minfinity_inverse,
              gen_times |-> timed.gen_times,
              force_on_wall_due_to_dumbbells |-> env.force_on_wall_due_to_dumbbells]

generate_output_FTSUOE(a) ==
    LET env0 == LocalsAtStart(a)
        generated == GenerateMatrix(a, env0)
    IN  IF a.input_form = "stokes_drag_dumbbells_only"
        THEN Finish(a, StokesDragBranch(a, env0))
        ELSE IF generated.exception # "none"
        THEN Finish(a, generated)
        ELSE Finish(a, CASE a.input_form = "fts" -> FTSBranch(a, generated)
                         [] a.input_form = "fte" -> FTEBranch(a, generated)
                         [] a.input_form = "ufte" -> UFTEBranch(a, generated)
                         [] a.input_form = "ufteu" -> UFTEUBranch(a, generated)
                         [] a.input_form = "duf" -> DUFBranch(a, generated))

(***************************************************************************)
(* What input_ftsuoe (input_setups) may return.  A bundle is described by  *)
(* the set of unset entries of each of its lists.                          *)
(***************************************************************************)
SphereLists == {"Fa_in", "Ta_in", "Sa_in", "Ua_in", "Oa_in", "Ea_in"}

DumbbellLists == {"Fb_in", "DFb_in", "Ub_in", "HalfDUb_in"}

Prescribed(name, which, num, unset) ==
    [i \in 0..(num - 1) |-> IF i \in unset THEN Pippa ELSE <<name, which, i>>]

Bundle(which, n, m, unset, periodic, mu) ==
    [Fa_in |-> Prescribed("Fa_in", which, n, unset.Fa_in),
     Ta_in |-> Prescribed("Ta_in", which, n, unset.Ta_in),
     Sa_in |-> Prescribed("Sa_in", which, n, unset.Sa_in),
     Ua_in |-> Prescribed("Ua_in", which, n, unset.Ua_in),
     Oa_in |-> Prescribed("Oa_in", which, n, unset.Oa_in),
     Ea_in |-> Prescribed("Ea_in", which, n, unset.Ea_in),
     Fb_in |-> Prescribed("Fb_in", which, m, unset.Fb_in),
     DFb_in |-> Prescribed("DFb_in", which, m, unset.DFb_in),
     Ub_in |-> Prescribed("Ub_in", which, m, unset.Ub_in),
     HalfDUb_in |-> Prescribed("HalfDUb_in", which, m, unset.HalfDUb_in),
     periodic |-> periodic,
     mu |-> mu]

All(num) == 0..(num - 1)

\* one more entry of one list is unset; <<"none", 0>> is no hole
WithHole(unset, hole) ==
    [name \in DOMAIN unset |->
        IF hole[1] = name THEN unset[name] \cup {hole[2]} ELSE unset[name]]

Holes(lists, n, m) ==
    {<<"none", 0>>}
    \cup {<<name, i>> : name \in lists \cap SphereLists, i \in All(n)}
    \cup {<<name, i>> : name \in lists \cap DumbbellLists, i \in All(m)}

Arguments(input_form, extract, n, m, dumbbell_sizes, first, second) ==
    [input_form |-> input_form,
     extract_force_on_wall_due_to_dumbbells |-> extract,
     num_spheres |-> n,
     num_dumbbells |-> m,
     dumbbell_sizes |-> dumbbell_sizes,
     last_generated_Minfinity_inverse |-> "given",
     first |-> first,
     second |-> second]

UnitSizes(m) == [i \in All(m) |-> 1]

Done(a) == [pc |-> "done", args |-> a, result |-> generate_output_FTSUOE(a)]

\* the box is periodic only where there is a sphere for Ea_in[0]
Periodicities(n) == IF n = 0 THEN {FALSE} ELSE BOOLEAN

CallFTS ==
    /\ call.pc = "idle"
    /\ \E n \in 0..MaxParticles : \E m \in 0..(MaxParticles - n) :
       \E periodic \in Periodicities(n) :
       \E uFa \in SUBSET All(n), uTa \in SUBSET All(n), uSa \in SUBSET All(n) :
       \E uFb \in SUBSET All(m), uDFb \in SUBSET All(m) :
           LET unset == [Fa_in |-> uFa, Ta_in |-> uTa, Sa_in |-> uSa,
                         Ua_in |-> All(n), Oa_in |-> All(n), Ea_in |-> {},
                         Fb_in |-> uFb, DFb_in |-> uDFb,
                         Ub_in |-> All(m), HalfDUb_in |-> All(m)]
               b == Bundle("skip", n, m, unset, periodic, 1)
           IN  call' = Done(Arguments("fts", FALSE, n, m, UnitSizes(m), b, b))
    /\ UNCHANGED <<error, diag, wrap, sim, step, chain>>

CallFTE ==
    /\ call.pc = "idle"
    /\ \E n \in 0..MaxParticles : \E m \in 0..(MaxParticles - n) :
       \E periodic \in Periodicities(n) :
       \E uFa \in SUBSET All(n), uTa \in SUBSET All(n), uEa \in SUBSET All(n) :
       \E uFb \in SUBSET All(m), uDFb \in SUBSET All(m) :
       \E skipped \in BOOLEAN :
           LET unset == [Fa_in |-> uFa, Ta_in |-> uTa, Sa_in |-> All(n),
                         Ua_in |-> All(n), Oa_in |-> All(n), Ea_in |-> uEa,
                         Fb_in |-> uFb, DFb_in |-> uDFb,
                         Ub_in |-> All(m), HalfDUb_in |-> All(m)]
               \* in skip_computation mode the forces may be left out
               first == Bundle("skip", n, m,
                               IF skipped
                               THEN [unset EXCEPT !.Fa_in = All(n), !.Fb_in = All(m)]
                               ELSE unset,
                               periodic, 1)
               second == Bundle("full", n, m, unset, periodic, 1)
           IN  call' = Done(Arguments("fte", FALSE, n, m, UnitSizes(m), first, second))
    /\ UNCHANGED <<error, diag, wrap, sim, step, chain>>

CallUFTE ==
    /\ call.pc = "idle"
    /\ \E n \in 0..MaxParticles : \E m \in 0..(MaxParticles - n) :
       \E periodic \in Periodicities(n), extract \in BOOLEAN :
       \E uUa \in SUBSET All(n), uFa \in SUBSET All(n) :
       \E hole \in Holes({"Ta_in", "Ea_in", "Fb_in", "DFb_in"}, n, m) :
           LET unset == [Fa_in |-> uFa, Ta_in |-> {}, Sa_in |-> All(n),
                         Ua_in |-> uUa, Oa_in |-> All(n), Ea_in |-> {},
                         Fb_in |-> {}, DFb_in |-> {},
                         Ub_in |-> All(m), HalfDUb_in |-> All(m)]
               b == Bundle("skip", n, m, WithHole(unset, hole), periodic, 1)
           IN  call' = Done(Arguments("ufte", extract, n, m, UnitSizes(m), b, b))
    /\ UNCHANGED <<error, diag, wrap, sim, step, chain>>

CallUFTEU ==
    /\ call.pc = "idle"
    /\ \E n \in 0..MaxParticles : \E m \in 0..(MaxParticles - n) :
       \E periodic \in Periodicities(n), extract \in BOOLEAN :
       \E uUa \in SUBSET All(n), uFa \in SUBSET All(n) :
       \E uUb \in SUBSET All(m), uFb \in SUBSET All(m) :
       \E hole \in Holes({"Ta_in", "Ea_in", "HalfDUb_in", "DFb_in"}, n, m) :
           LET unset == [Fa_in |-> uFa, Ta_in |-> {}, Sa_in |-> All(n),
                         Ua_in |-> uUa, Oa_in |-> All(n), Ea_in |-> {},
                         Fb_in |-> uFb, DFb_in |-> uFb,
                         Ub_in |-> uUb, HalfDUb_in |-> uUb]
               b == Bundle("skip", n, m, WithHole(unset, hole), periodic, 1)
           IN  call' = Done(Arguments("ufteu", extract, n, m, UnitSizes(m), b, b))
    /\ UNCHANGED <<error, diag, wrap, sim, step, chain>>

CallDUF ==
    /\ call.pc = "idle"
    /\ \E n \in 0..MaxParticles : \E m \in 0..(MaxParticles - n) :
       \E periodic \in Periodicities(n) :
       \E uUb \in SUBSET All(m), uFb \in SUBSET All(m) :
       \E hole \in Holes({"Fa_in", "Ta_in", "Ea_in", "HalfDUb_in", "DFb_in"}, n, m) :
           LET unset == [Fa_in |-> {}, Ta_in |-> {}, Sa_in |-> All(n),
                         Ua_in |-> All(n), Oa_in |-> All(n), Ea_in |-> {},
                         Fb_in |-> uFb, DFb_in |-> uFb,
                         Ub_in |-> uUb, HalfDUb_in |-> uUb]
               b == Bundle("skip", n, m, WithHole(unset, hole), periodic, 1)
           IN  call' = Done(Arguments("duf", FALSE, n, m, UnitSizes(m), b, b))
    /\ UNCHANGED <<error, diag, wrap, sim, step, chain>>

BeadSizes == {1, 2}

Viscosities == {1, 2}

Forces == {<<"num", k, 1>> : k \in 0..MaxForce}

\* dumbbells only: no spheres, every force a number
CallDrag ==
    /\ call.pc = "idle"
    /\ \E m \in 0..MaxDumbbells :
       \E Fb_in \in [All(m) -> Forces], DFb_in \in [All(m) -> Forces] :
       \E dumbbell_sizes \in [All(m) -> BeadSizes], mu \in Viscosities :
           LET unset == [name \in SphereLists \cup DumbbellLists |-> {}]
               b == [Bundle("skip", 0, m, unset, FALSE, mu) EXCEPT
                       !.Fb_in = Fb_in, !.DFb_in = DFb_in]
           IN  call' = Done(Arguments("stokes_drag_dumbbells_only", FALSE, 0, m, dumbbell_sizes, b, b))
    /\ UNCHANGED <<error, diag, wrap, sim, step, chain>>

(***************************************************************************)
(* The integrators.  A vector is a triple of rationals.  The length O of   *)
(* an angular velocity is kept as its square, and a column of rot_matrix   *)
(* as the vector and the power of O it is divided by.                      *)
(***************************************************************************)
Zero == <<0, 1>>

One == <<1, 1>>

ZeroVec == <<Zero, Zero, Zero>>

xhat == <<One, Zero, Zero>>

zhat == <<Zero, Zero, One>>

NaN == <<"nan">>    \* a vector whose components are nan

IntVec(v) == <<<<v[1], 1>>, <<v[2], 1>>, <<v[3], 1>>>>

VecAdd(a, b) == <<RatAdd(a[1], b[1]), RatAdd(a[2], b[2]), RatAdd(a[3], b[3])>>

VecSub(a, b) == <<RatSub(a[1], b[1]), RatSub(a[2], b[2]), RatSub(a[3], b[3])>>

VecScale(r, a) == <<RatMul(r, a[1]), RatMul(r, a[2]), RatMul(r, a[3])>>

VecDot(a, b) ==
    RatAdd(RatAdd(RatMul(a[1], b[1]), RatMul(a[2], b[2])), RatMul(a[3], b[3]))

\* np.cross
Cross(a, b) ==
    <<RatSub(RatMul(a[2], b[3]), RatMul(a[3], b[2])),
      RatSub(RatMul(a[3], b[1]), RatMul(a[1], b[3])),
      RatSub(RatMul(a[1], b[2]), RatMul(a[2], b[1]))>>

\* x + timestep * u
euler_timestep(x, u, timestep) == RatAdd(x, RatMul(timestep, u))

AB2VelocityMutNoPrevious(u, u_previous) == RatMul(<<3, 2>>, u)

\* 1.5 * u - 0.5 * u_previous
AB2Velocity(u, u_previous) ==
    RatSub(RatMul(<<3, 2>>, u), RatMul(Half, u_previous))

ab2_timestep(x, u, u_previous, timestep) ==
    RatAdd(x, RatMul(timestep, AB2Velocity(u, u_previous)))

\* np.allclose(abs(Oa_out[i] / O), [1, 0, 0]): within its tolerances (1e-5
\* relative, 1e-8 absolute) a vector of the model is close exactly when its
\* y and z components are zero
ParallelToX(w) == w[2] = Zero /\ w[3] = Zero

perp1MutAlwaysX(w) == xhat

\* the helper axis
perp1(w) == IF ParallelToX(w) THEN zhat ELSE xhat

\* np.identity(3), and otherwise the transpose of the rows
\* cross(w, perp1) / O, cross(w, cross(w, perp1)) / O ** 2, w / O
rot_matrix(w) ==
    IF w = ZeroVec
    THEN [columns |-> <<xhat, <<Zero, One, Zero>>, zhat>>,
          O_power |-> <<0, 0, 0>>,
          O_squared |-> Zero,
          perp1 |-> <<"none">>]
    ELSE [columns |-> <<Cross(w, perp1(w)), Cross(w, Cross(w, perp1(w))), w>>,
          O_power |-> <<1, 2, 1>>,
          O_squared |-> VecDot(w, w),
          perp1 |-> perp1(w)]

\* q * sqrt(n), for a rational q and a rational n >= 0
Surd(q, n) == [q |-> q, n |-> n]

SurdMul(a, b) == Surd(RatMul(a.q, b.q), RatMul(a.n, b.n))

ISqrt(k) == CHOOSE s \in 0..k : s * s = k

\* the rational a surd is, where its radicand is the square of one
SurdValue(a) == RatMul(a.q, <<ISqrt(a.n[1]), ISqrt(a.n[2])>>)

\* r0, t0 and p0 of a vector that is not zero: the radius, the cosine and the
\* sine of the polar angle, and those of the azimuth, which is 0 on the z-axis
Spherical(v) ==
    LET r_squared == VecDot(v, v)
        rho_squared == RatAdd(RatMul(v[1], v[1]), RatMul(v[2], v[2]))
        on_axis == v[1] = Zero /\ v[2] = Zero
    IN  [r |-> Surd(One, r_squared),
         cos_t |-> Surd(v[3], RatInv(r_squared)),
         sin_t |-> Surd(One, RatDiv(rho_squared, r_squared)),
         cos_p |-> IF on_axis THEN Surd(One, One) ELSE Surd(v[1], RatInv(rho_squared)),
         sin_p |-> IF on_axis THEN Surd(Zero, One) ELSE Surd(v[2], RatInv(rho_squared))]

CartesianMutSwapped(s) ==
    <<SurdValue(SurdMul(SurdMul(s.r, s.sin_t), s.sin_p)),
      SurdValue(SurdMul(SurdMul(s.r, s.sin_t), s.cos_p)),
      SurdValue(SurdMul(s.r, s.cos_t))>>

\* r sin(t) cos(p), r sin(t) sin(p), r cos(t)
Cartesian(s) ==
    <<SurdValue(SurdMul(SurdMul(s.r, s.sin_t), s.cos_p)),
      SurdValue(SurdMul(SurdMul(s.r, s.sin_t), s.sin_p)),
      SurdValue(SurdMul(s.r, s.cos_t))>>

\* the body of the loop over j: the new place of the marker that was at rb0.
\* With the identity for rot_matrix the arithmetic is exact; a turn by a
\* nonzero angle timestep * O about Oa_out[i] is left as the term that names
\* it.  A marker at the centre has r0 = 0, and z0 / r0 is then nan.
NewMarker(rot, R0, R, rb0, timestep) ==
    LET offset == VecSub(rb0, R0)
        \* p - p0 where O = 0
        at_rest == euler_timestep(Zero, Zero, timestep)
    IN  IF offset = ZeroVec THEN NaN
        ELSE IF rot.O_squared = Zero /\ at_rest = Zero
        THEN VecAdd(R, Cartesian(Spherical(offset)))
        ELSE <<"turned", R, rot, offset, timestep>>

\* the loop over the spheres; rot_matrices are the matrices it built
euler_timestep_rotation(sphere_positions, sphere_rotations, new_sphere_positions, Oa_out, timestep) ==
    [new_sphere_rotations |->
        [i \in DOMAIN sphere_positions |->
            [j \in 0..1 |-> NewMarker(rot_matrix(Oa_out[i]), sphere_positions[i],
                                      new_sphere_positions[i], sphere_rotations[i][j],
                                      timestep)]],
     rot_matrices |-> [i \in DOMAIN sphere_positions |-> rot_matrix(Oa_out[i])]]

\* combined_Oa_for_ab2 = 1.5 * Oa_out - 0.5 * Oa_out_previous
combined_Oa_for_ab2(Oa_out, Oa_out_previous) ==
    [i \in DOMAIN Oa_out |->
        <<AB2Velocity(Oa_out[i][1], Oa_out_previous[i][1]),
          AB2Velocity(Oa_out[i][2], Oa_out_previous[i][2]),
          AB2Velocity(Oa_out[i][3], Oa_out_previous[i][3])>>]

ab2_timestep_rotation(sphere_positions, sphere_rotations, new_sphere_positions, Oa_out, Oa_out_previous, timestep) ==
    euler_timestep_rotation(sphere_positions, sphere_rotations, new_sphere_positions,
                            combined_Oa_for_ab2(Oa_out, Oa_out_previous), timestep)

Scalars == {<<k, 1>> : k \in (0 - MaxScalar)..MaxScalar}

Timesteps == {One, Half}

\* where the centre of a sphere that was at <<1, -2, 3>> is after the step
Centres == {ZeroVec, IntVec(<<1, -2, 3>>)}

Omegas ==
    {IntVec(<<a, b, c>>) : a \in (0 - MaxOmega)..MaxOmega,
                           b \in (0 - MaxOmega)..MaxOmega,
                           c \in (0 - MaxOmega)..MaxOmega}

\* where a marker is, from the centre of its sphere: at the centre, on the
\* z-axis, in the xy-plane, elsewhere
MarkerOffsets ==
    {IntVec(<<0, 0, 0>>), IntVec(<<0, 0, 1>>), IntVec(<<0, 0, -2>>),
     IntVec(<<1, 0, 0>>), IntVec(<<-1, 1, 0>>), IntVec(<<1, 2, -2>>)}

\* a sphere: its centre before and after the step, its angular velocity and
\* the offsets of its two markers
Spheres ==
    {[R0 |-> IntVec(<<1, -2, 3>>), R |-> R, Oa |-> w, offsets |-> <<o1, zhat>>] :
        R \in Centres, w \in Omegas, o1 \in MarkerOffsets}

\* a second sphere, where there is one
SecondSpheres ==
    {[R0 |-> IntVec(<<4, 4, 4>>), R |-> IntVec(<<4, 4, 5>>), Oa |-> w,
      offsets |-> <<IntVec(<<1, 0, 0>>), IntVec(<<0, 0, 1>>)>>] : w \in {ZeroVec, zhat}}

SphereLists1or2 ==
    {[i \in 0..0 |-> a] : a \in Spheres}
    \cup {[i \in 0..1 |-> IF i = 0 THEN a ELSE b] : a \in Spheres, b \in SecondSpheres}

sphere_positions_of(ss) == [i \in DOMAIN ss |-> ss[i].R0]

new_sphere_positions_of(ss) == [i \in DOMAIN ss |-> ss[i].R]

sphere_rotations_of(ss) ==
    [i \in DOMAIN ss |-> [j \in 0..1 |-> VecAdd(ss[i].R0, ss[i].offsets[j + 1])]]

Oa_out_of(ss) == [i \in DOMAIN ss |-> ss[i].Oa]

\* the angular velocity of the step before: the same, none, or three times it
PreviousChoices == {"same", "rest", "threefold"}

Oa_out_previous_of(ss, choice) ==
    [i \in DOMAIN ss |->
        CASE choice = "same" -> ss[i].Oa
          [] choice = "rest" -> ZeroVec
          [] choice = "threefold" -> VecScale(<<3, 1>>, ss[i].Oa)]

EulerStep ==
    /\ step.op = "none"
    /\ \E x \in Scalars, u \in Scalars, timestep \in Timesteps :
        step' = [op |-> "euler_timestep", x |-> x, u |-> u, timestep |-> timestep,
                 result |-> euler_timestep(x, u, timestep)]
    /\ UNCHANGED <<error, diag, wrap, sim, call, chain>>

AB2Step ==
    /\ step.op = "none"
    /\ \E x \in Scalars, u \in Scalars, u_previous \in Scalars, timestep \in Timesteps :
        step' = [op |-> "ab2_timestep", x |-> x, u |-> u, u_previous |-> u_previous,
                 timestep |-> timestep,
                 result |-> ab2_timestep(x, u, u_previous, timestep)]
    /\ UNCHANGED <<error, diag, wrap, sim, call, chain>>

EulerRotation ==
    /\ step.op = "none"
    /\ \E ss \in SphereLists1or2, timestep \in Timesteps :
        step' = [op |-> "euler_timestep_rotation", spheres |-> ss, timestep |-> timestep,
                 Oa_out |-> Oa_out_of(ss),
                 result |-> euler_timestep_rotation(
                                sphere_positions_of(ss), sphere_rotations_of(ss),
                                new_sphere_positions_of(ss), Oa_out_of(ss), timestep)]
    /\ UNCHANGED <<error, diag, wrap, sim, call, chain>>

AB2Rotation ==
    /\ step.op = "none"
    /\ \E ss \in SphereLists1or2, timestep \in Timesteps, choice \in PreviousChoices :
        step' = [op |-> "ab2_timestep_rotation", spheres |-> ss, timestep |-> timestep,
                 Oa_out |-> Oa_out_of(ss),
                 Oa_out_previous |-> Oa_out_previous_of(ss, choice),
                 result |-> ab2_timestep_rotation(
                                sphere_positions_of(ss), sphere_rotations_of(ss),
                                new_sphere_positions_of(ss), Oa_out_of(ss),
                                Oa_out_previous_of(ss, choice), timestep)]
    /\ UNCHANGED <<error, diag, wrap, sim, call, chain>>

(***************************************************************************)
(* are_some_of_the_particles_too_close, along one axis, and the diagnostic *)
(* checks called one after the other on the flag the last one returned     *)
(***************************************************************************)
RatAbs(a) == <<Abs(a[1]), a[2]>>

\* np.concatenate([sphere_positions, dumbbell_positions + 0.5 * dumbbell_deltax,
\*                 dumbbell_positions - 0.5 * dumbbell_deltax])
sphere_and_bead_positions(sphere_positions, dumbbell_positions, dumbbell_deltax) ==
    PyConcat(sphere_positions,
             PyConcat([i \in DOMAIN dumbbell_positions |->
                          RatAdd(dumbbell_positions[i], RatMul(Half, dumbbell_deltax[i]))],
                      [i \in DOMAIN dumbbell_positions |->
                          RatSub(dumbbell_positions[i], RatMul(Half, dumbbell_deltax[i]))]))

\* the matrix of s': distance_matrix / average_size
distance_over_average_size(positions, sizes) ==
    [i \in DOMAIN positions |->
        [j \in DOMAIN positions |->
            RatDiv(RatAbs(RatSub(positions[i], positions[j])),
                   RatMul(Half, RatAdd(sizes[i], sizes[j])))]]

are_some_of_the_particles_too_closeMutReset(err, printout, sphere_positions, dumbbell_positions, dumbbell_deltax, sphere_sizes, dumbbell_sizes) ==
    [status |-> "returned", error |-> FALSE, printed |-> printout > 0]

are_some_of_the_particles_too_close(err, printout, sphere_positions, dumbbell_positions, dumbbell_deltax, sphere_sizes, dumbbell_sizes) ==
    LET positions == sphere_and_bead_positions(sphere_positions, dumbbell_positions,
                                               dumbbell_deltax)
        sizes == PyConcat(sphere_sizes, PyConcat(dumbbell_sizes, dumbbell_sizes))
        s_dash == distance_over_average_size(positions, sizes)
    IN  [status |-> "returned",
         error |-> err,
         printed |-> printout > 0,
         distance_over_average_size |-> s_dash]

\* a call whose flag came from the last call, if that one returned
CanCheck ==
    /\ Len(chain) < MaxChain
    /\ Len(chain) > 0 => chain[Len(chain)].status = "returned"

Checked(op, r) ==
    [op |-> op, error_in |-> error, status |-> r.status,
     error_out |-> IF r.status = "returned" THEN r.error ELSE error]

Printouts == {0, 1, 2}

\* one sphere, or one sphere and a dumbbell, apart or on top of each other
Arrangements ==
    {[sphere_positions |-> [i \in 0..0 |-> <<0, 1>>],
      dumbbell_positions |-> [i \in 0..(nd - 1) |-> <<x, 1>>],
      dumbbell_deltax |-> [i \in 0..(nd - 1) |-> <<2, 1>>],
      sphere_sizes |-> [i \in 0..0 |-> <<1, 1>>],
      dumbbell_sizes |-> [i \in 0..(nd - 1) |-> <<1, 10>>]] : nd \in {0, 1}, x \in {1, 4}}

TheSizes == {[i \in 0..0 |-> 1], [i \in 0..1 |-> 1], [i \in 0..1 |-> i + 1]}

TheLamRanges == {{<<1, 1>>}, {<<2, 1>>}, {<<1, 1>>, <<2, 1>>}}

ThenSizeRatioCheck ==
    /\ CanCheck
    /\ \E element_sizes \in TheSizes, lam_range \in TheLamRanges :
        LET r == do_we_have_all_size_ratios(error, element_sizes, lam_range,
                                            PyLen(element_sizes))
        IN  /\ chain' = Append(chain, Checked("do_we_have_all_size_ratios", r))
            /\ error' = IF r.status = "returned" THEN r.error ELSE error
    /\ UNCHANGED <<diag, wrap, sim, call, step>>

ThenTooCloseCheck ==
    /\ CanCheck
    /\ \E printout \in Printouts, a \in Arrangements :
        LET r == are_some_of_the_particles_too_close(
                     error, printout, a.sphere_positions, a.dumbbell_positions,
                     a.dumbbell_deltax, a.sphere_sizes, a.dumbbell_sizes)
        IN  /\ chain' = Append(chain, Checked("are_some_of_the_particles_too_close", r))
            /\ error' = r.error
    /\ UNCHANGED <<diag, wrap, sim, call, step>>

ThenDumbbellCheck ==
    /\ CanCheck
    /\ \E n \in 0..1 :
       \E dumbbell_deltax \in PyLists(OldDeltaxValues, n) :
       \E new_dumbbell_deltax \in PyLists(NewDeltaxValues, n) :
       \E explosion_protection \in BOOLEAN :
        LET r == did_something_go_wrong_with_dumbells(
                     error, dumbbell_deltax, new_dumbbell_deltax, explosion_protection)
        IN  /\ chain' = Append(chain, Checked("did_something_go_wrong_with_dumbells", r))
            /\ error' = r.error
    /\ UNCHANGED <<diag, wrap, sim, call, step>>

(***************************************************************************)
(* Specifications: one per group of functions                              *)
(***************************************************************************)
InitDiag ==
    /\ error \in BOOLEAN
    /\ diag = IdleDiag
    /\ wrap = IdleWrap
    /\ sim = IdleSim
    /\ call = IdleCall
    /\ step = IdleStep
    /\ chain = IdleChain

NextDiag == SizeRatioCheck \/ DumbbellCheck

SpecDiag == InitDiag /\ [][NextDiag]_vars

InitWrap ==
    /\ error = FALSE
    /\ diag = IdleDiag
    /\ wrap = IdleWrap
    /\ sim = IdleSim
    /\ call = IdleCall
    /\ step = IdleStep
    /\ chain = IdleChain

NextWrap == Wrap \/ Rewrap

SpecWrap == InitWrap /\ [][NextWrap]_vars

InitEta ==
    /\ error = FALSE
    /\ diag = IdleDiag
    /\ wrap = IdleWrap
    /\ sim = IdleSim
    /\ call = IdleCall
    /\ step = IdleStep
    /\ chain = IdleChain

NextEta == StartRun \/ Frame

SpecEta == InitEta /\ [][NextEta]_vars

InitSolve ==
    /\ error = FALSE
    /\ diag = IdleDiag
    /\ wrap = IdleWrap
    /\ sim = IdleSim
    /\ call = IdleCall
    /\ step = IdleStep
    /\ chain = IdleChain

NextSolve == CallFTS \/ CallFTE \/ CallUFTE \/ CallUFTEU \/ CallDUF \/ CallDrag

SpecSolve == InitSolve /\ [][NextSolve]_vars

InitStep ==
    /\ error = FALSE
    /\ diag = IdleDiag
    /\ wrap = IdleWrap
    /\ sim = IdleSim
    /\ call = IdleCall
    /\ step = IdleStep
    /\ chain = IdleChain

NextStep == EulerStep \/ AB2Step \/ EulerRotation \/ AB2Rotation

SpecStep == InitStep /\ [][NextStep]_vars

InitChain ==
    /\ error \in BOOLEAN
    /\ diag = IdleDiag
    /\ wrap = IdleWrap
    /\ sim = IdleSim
    /\ call = IdleCall
    /\ step = IdleStep
    /\ chain = IdleChain

NextChain == ThenSizeRatioCheck \/ ThenTooCloseCheck \/ ThenDumbbellCheck

SpecChain == InitChain /\ [][NextChain]_vars

(***************************************************************************)
(* Claims                                                                  *)
(***************************************************************************)

\* the size ratio size_j / size_i is in neither lam_range nor its reciprocals
RatioMissing(element_sizes, lam_range, i, j) ==
    \A l \in lam_range :
        /\ element_sizes[j] * l[2] # element_sizes[i] * l[1]
        /\ element_sizes[j] * l[1] # element_sizes[i] * l[2]

OffendingPairs(element_sizes, lam_range) ==
    {p \in (DOMAIN element_sizes) \X (DOMAIN element_sizes) :
        RatioMissing(element_sizes, lam_range, p[1], p[2])}

FirstOffendingPair(element_sizes, lam_range) ==
    CHOOSE p \in OffendingPairs(element_sizes, lam_range) :
        \A q \in OffendingPairs(element_sizes, lam_range) :
            p[1] < q[1] \/ (p[1] = q[1] /\ p[2] <= q[2])

\* C3: whenever the size ratio of some pair of distinct elements is missing
\* from the table, do_we_have_all_size_ratios returns True and reports the two
\* members of the first offending pair, each labelled sphere or dumbbell, so
\* that the ratio it prints is one that is missing; for any number of elements.
C3_ReportsFirstOffendingPair ==
    (/\ diag.op = "do_we_have_all_size_ratios"
     /\ \E p \in OffendingPairs(diag.element_sizes, diag.lam_range) : p[1] # p[2])
    => LET first == FirstOffendingPair(diag.element_sizes, diag.lam_range)
           r == diag.result
       IN  /\ r.status = "returned"
           /\ r.error = TRUE
           /\ r.elements = first
           /\ RatioMissing(diag.element_sizes, diag.lam_range,
                           r.elements[1], r.elements[2])
           /\ \A k \in 1..2 :
                r.str[k] = IF first[k] >= diag.num_spheres
                           THEN [kind |-> "dumbbell", index |-> first[k] - diag.num_spheres]
                           ELSE [kind |-> "sphere", index |-> first[k]]

WholeLengthsApart(a, b, len) == RatDiv(RatSub(b, a), len)[2] = 1

\* C4 as stated: for any corners box_bottom_left < box_top_right the wrapped
\* position p lies in the box (box_bottom_left <= p < box_top_right) and
\* differs from the input by a whole number of box lengths, so that
\* box_top_right + e is returned as box_bottom_left + e.
C4_WrapsIntoBox ==
    (wrap.pc = "wrapped" /\ RatLess(wrap.box_bottom_left, wrap.box_top_right))
    => LET len == RatSub(wrap.box_top_right, wrap.box_bottom_left)
           e == RatSub(wrap.position, wrap.box_top_right)
       IN  /\ RatLeq(wrap.box_bottom_left, wrap.wrapped)
           /\ RatLess(wrap.wrapped, wrap.box_top_right)
           /\ WholeLengthsApart(wrap.position, wrap.wrapped, len)
           /\ (RatLeq(<<0, 1>>, e) /\ RatLess(e, len))
                 => RatEq(wrap.wrapped, RatAdd(wrap.box_bottom_left, e))

\* C4 amended: the wrapped position p lies in the cell of the box's size that
\* is centred on the origin (-L/2 <= p < L/2, L the box length) and differs
\* from the input by a whole number of box lengths; when the box is centred on
\* the origin this cell is the box, and box_top_right + e is returned as
\* box_bottom_left + e.
C4_WrapsIntoCentredCell ==
    (wrap.pc = "wrapped" /\ RatLess(wrap.box_bottom_left, wrap.box_top_right))
    => LET len == RatSub(wrap.box_top_right, wrap.box_bottom_left)
           e == RatSub(wrap.position, wrap.box_top_right)
           centred == RatEq(RatAdd(wrap.box_bottom_left, wrap.box_top_right), <<0, 1>>)
       IN  /\ RatLeq(RatMul(<<-1, 2>>, len), wrap.wrapped)
           /\ RatLess(wrap.wrapped, RatMul(<<1, 2>>, len))
           /\ WholeLengthsApart(wrap.position, wrap.wrapped, len)
           /\ centred =>
                /\ RatLeq(wrap.box_bottom_left, wrap.wrapped)
                /\ RatLess(wrap.wrapped, wrap.box_top_right)
                /\ (RatLeq(<<0, 1>>, e) /\ RatLess(e, len))
                      => RatEq(wrap.wrapped, RatAdd(wrap.box_bottom_left, e))

\* C4 witness: a box centred on the origin, a position one unit beyond its
\* top corner, returned one unit above its bottom corner
C4_Witness ==
    /\ wrap.pc = "wrapped"
    /\ wrap.box_top_right = <<2, 1>>
    /\ wrap.box_bottom_left = <<-2, 1>>
    /\ wrap.position = <<3, 1>>
    /\ wrap.wrapped = <<-1, 1>>

RECURSIVE SumOfTimes(_, _)
SumOfTimes(frames, times) ==
    IF frames = {} THEN 0
    ELSE LET i == CHOOSE i \in frames : TRUE
         IN  times[i] + SumOfTimes(frames \ {i}, times)

\* C7: the estimate is 1.03 * (shortLeft * shortAvg + longLeft * longAvg),
\* with the elapsed frames s..frameno split into long frames (i mod N = 0 or
\* i = s) and short ones, the frames left counted by i mod N, longAvg the mean
\* of the elapsed long times (without the first when JIT is on and there are
\* two or more) and shortAvg the mean of the elapsed short times, or longAvg
\* when there are none.
C7_TimeLeft ==
    (sim.pc = "running" /\ sim.frameno >= sim.checkpoint_start_from_frame)
    => LET s == sim.checkpoint_start_from_frame
           N == sim.invert_m_every
           elapsed == s..sim.frameno
           long == {i \in elapsed : i % N = 0 \/ i = s}
           short == elapsed \ long
           left == (sim.frameno + 1)..(sim.num_frames - 1)
           longLeft == Cardinality({i \in left : i % N = 0})
           shortLeft == Cardinality({i \in left : i % N # 0})
           counted == IF ~sim.disable_jit /\ Cardinality(long) >= 2
                      THEN long \ {s} ELSE long
           ls == SumOfTimes(counted, sim.times)
           lc == Cardinality(counted)
           ss == IF short = {} THEN ls ELSE SumOfTimes(short, sim.times)
           sc == IF short = {} THEN lc ELSE Cardinality(short)
           tn == sim.eta.timeleft[1]
           td == sim.eta.timeleft[2]
       IN  /\ lc > 0 /\ sc > 0 /\ td > 0
           /\ tn * 100 * sc * lc = 103 * td * (shortLeft * ss * lc + longLeft * ls * sc)

\* C7 witness: JIT on, two elapsed long frames of different times (the first
\* is left out of longAvg), no elapsed short frame (shortAvg is longAvg), and
\* one long and one short frame left: 1.03 * (1 * 1 + 1 * 1)
C7_Witness ==
    /\ sim.pc = "running"
    /\ ~sim.disable_jit
    /\ sim.invert_m_every = 2
    /\ sim.checkpoint_start_from_frame = 1
    /\ sim.num_frames = 5
    /\ sim.frameno = 2
    /\ sim.times[1] = 2 /\ sim.times[2] = 1
    /\ sim.eta.timeleft = <<103, 50>>
(***************************************************************************)
(* Claims about generate_output_FTSUOE                                     *)
(***************************************************************************)
InCalls(result, what) == \E i \in 1..Len(result.calls) : result.calls[i] = what

IsSet(l, i) == l[i] # Pippa

AnyUnset(l) == \E i \in DOMAIN l : l[i] = Pippa

\* some particle has neither its velocity nor its force prescribed
Neither(vel_in, force_in) ==
    \E i \in DOMAIN vel_in : ~IsSet(vel_in, i) /\ ~IsSet(force_in, i)

\* some particle has both its velocity and its force prescribed
Both(vel_in, force_in) ==
    \E i \in DOMAIN vel_in : IsSet(vel_in, i) /\ IsSet(force_in, i)

\* the particles with a prescribed velocity are not the first ones
NotLeading(vel_in) ==
    {i \in DOMAIN vel_in : IsSet(vel_in, i)}
        # All(Cardinality({i \in DOMAIN vel_in : IsSet(vel_in, i)}))

PartitionsSpheres(input_form) == input_form \in {"ufte", "ufteu"}

PartitionsDumbbells(input_form) == input_form \in {"ufteu", "duf"}

\* the same call without extract_force_on_wall_due_to_dumbbells
WithoutExtraction(a) ==
    generate_output_FTSUOE([a EXCEPT !.extract_force_on_wall_due_to_dumbbells = FALSE])

\* everything the mode reads besides the U/F pair is given where it is read
RestGiven(a) ==
    LET b == a.first
        k == num_fixed_velocity(b.Ub_in, PyLen(b.Ub_in))
    IN  /\ ~AnyUnset(b.Ta_in)
        /\ ~AnyUnset(b.Ea_in)
        /\ a.input_form = "duf" => ~AnyUnset(b.Fa_in)
        /\ a.input_form = "ufte" => ~AnyUnset(b.Fb_in) /\ ~AnyUnset(b.DFb_in)
        /\ PartitionsDumbbells(a.input_form) =>
              \A i \in DOMAIN b.Ub_in :
                  IF i < k THEN IsSet(b.HalfDUb_in, i) ELSE IsSet(b.DFb_in, i)

NeitherOrNotLeading(a) ==
    LET b == a.first
    IN  \/ /\ PartitionsSpheres(a.input_form)
           /\ Neither(b.Ua_in, b.Fa_in) \/ NotLeading(b.Ua_in)
        \/ /\ PartitionsDumbbells(a.input_form)
           /\ Neither(b.Ub_in, b.Fb_in) \/ NotLeading(b.Ub_in)

BothSomewhere(a) ==
    LET b == a.first
    IN  \/ PartitionsSpheres(a.input_form) /\ Both(b.Ua_in, b.Fa_in)
        \/ PartitionsDumbbells(a.input_form) /\ Both(b.Ub_in, b.Fb_in)

C2_ExtractionReturnsAllOutputs ==
    (/\ call.pc = "done"
     /\ call.args.input_form = "ufte"
     /\ call.args.extract_force_on_wall_due_to_dumbbells
     /\ call.args.num_spheres >= 1
     /\ call.args.num_dumbbells >= 1
     /\ WithoutExtraction(call.args).status = "returned")
    => /\ call.result.status = "returned"
       /\ InCalls(call.result, "np.linalg.inv")
       /\ \A f \in ReturnedOutputs : call.result[f] = WithoutExtraction(call.args)[f]
       /\ call.result.force_on_wall_due_to_dumbbells[1]
              = "mobility_block_times_dumbbell_forces"

\* C8 as stated: in ufteu mode with extraction requested, the call logs a
\* warning, returns, and its wall force is a signal that differs from the
\* numeric 0 returned when extraction was not requested.
C8_UnsupportedSignal ==
    (/\ call.pc = "done"
     /\ call.args.input_form = "ufteu"
     /\ call.args.extract_force_on_wall_due_to_dumbbells
     /\ WithoutExtraction(call.args).status = "returned")
    => /\ call.result.status = "returned"
       /\ InCalls(call.result,
                  "print(WARNING: Cannot extract force on wall due to dumbbells in UFTEU mode)")
       /\ call.result.force_on_wall_due_to_dumbbells # <<"num", 0, 1>>
       /\ call.result.force_on_wall_due_to_dumbbells
              # WithoutExtraction(call.args).force_on_wall_due_to_dumbbells

\* C8 amended: in ufteu mode with extraction requested, the call logs a
\* warning, returns the same outputs as without extraction, and its wall
\* force is the default numeric 0, the value returned without extraction.
C8_WarnsAndReturnsDefault ==
    (/\ call.pc = "done"
     /\ call.args.input_form = "ufteu"
     /\ call.args.extract_force_on_wall_due_to_dumbbells
     /\ WithoutExtraction(call.args).status = "returned")
    => /\ call.result.status = "returned"
       /\ InCalls(call.result,
                  "print(WARNING: Cannot extract force on wall due to dumbbells in UFTEU mode)")
       /\ call.result.force_on_wall_due_to_dumbbells = <<"num", 0, 1>>
       /\ call.result.force_on_wall_due_to_dumbbells
              = WithoutExtraction(call.args).force_on_wall_due_to_dumbbells
       /\ \A f \in ReturnedOutputs : call.result[f] = WithoutExtraction(call.args)[f]

\* C8 witness: a ufteu call with extraction, with a sphere and a dumbbell,
\* that returned
C8_Witness ==
    /\ call.pc = "done"
    /\ call.args.input_form = "ufteu"
    /\ call.args.extract_force_on_wall_due_to_dumbbells
    /\ call.args.num_spheres >= 1
    /\ call.args.num_dumbbells >= 1
    /\ call.result.status = "returned"

\* the lists the mode packs into the excitation vector
ExcitationLists(a) ==
    IF a.input_form = "fts"
    THEN <<a.first.Fa_in, a.first.Ta_in, a.first.Sa_in, a.first.Fb_in, a.first.DFb_in>>
    ELSE <<a.second.Fa_in, a.second.Ta_in, a.second.Ea_in, a.second.Fb_in, a.second.DFb_in>>

\* C9: in fts mode with an unset force, torque or stresslet, and in fte mode
\* with an unset force, torque or rate of strain, the call ends in a
\* configuration error when the excitation vector is built: no solve is
\* performed and nothing is returned.
C9_UnsetInputIsConfigurationError ==
    (/\ call.pc = "done"
     /\ call.args.input_form \in {"fts", "fte"}
     /\ \E k \in 1..5 : AnyUnset(ExcitationLists(call.args)[k]))
    => /\ call.result.status = "ConfigurationError"
       /\ call.result.calls[Len(call.result.calls)] = "throw_error"
       /\ call.result.calls[Len(call.result.calls) - 1] = "construct_force_vector_from_fts"
       /\ ~InCalls(call.result, "np.linalg.solve")

\* C9 witness: an fts call in which only a torque is unset was refused
C9_Witness ==
    /\ call.pc = "done"
    /\ call.args.input_form = "fts"
    /\ AnyUnset(call.args.first.Ta_in)
    /\ ~AnyUnset(call.args.first.Fa_in)
    /\ ~AnyUnset(call.args.first.Sa_in)
    /\ ~AnyUnset(call.args.first.Fb_in)
    /\ ~AnyUnset(call.args.first.DFb_in)
    /\ call.result.status = "ConfigurationError"

\* the velocity of a bead of radius a under force F: F / (mu * a)
StokesDrag(F, mu, a) == RatDiv(F, <<mu * a, 1>>)

\* C10: in stokes_drag_dumbbells_only mode, for any number of dumbbells (at
\* least one), the call returns for every dumbbell Ub_out = (U1 + U2)/2 and
\* HalfDUb_out = (U1 - U2)/2, with U_i = F_i / (mu * a), F1 = (Fb + DFb)/2 and
\* F2 = (Fb - DFb)/2.
C10_StokesDragVelocities ==
    (/\ call.pc = "done"
     /\ call.args.input_form = "stokes_drag_dumbbells_only"
     /\ call.args.num_dumbbells >= 1)
    => /\ call.result.status = "returned"
       /\ \A i \in All(call.args.num_dumbbells) :
            LET b == call.args.first
                F1 == RatMul(Half, RatAdd(Val(b.Fb_in[i]), Val(b.DFb_in[i])))
                F2 == RatMul(Half, RatSub(Val(b.Fb_in[i]), Val(b.DFb_in[i])))
                U1 == StokesDrag(F1, b.mu, call.args.dumbbell_sizes[i])
                U2 == StokesDrag(F2, b.mu, call.args.dumbbell_sizes[i])
            IN  /\ call.result.Ub_out[i] = Num(RatMul(Half, RatAdd(U1, U2)))
                /\ call.result.HalfDUb_out[i] = Num(RatMul(Half, RatSub(U1, U2)))

(***************************************************************************)
(* Claims about the integrators                                            *)
(***************************************************************************)
IsRotation == step.op \in {"euler_timestep_rotation", "ab2_timestep_rotation"}

\* the spheres of the last rotation update that were given no angular velocity
AtRest == {i \in DOMAIN step.spheres : step.Oa_out[i] = ZeroVec}

NewOffset(i, j) ==
    VecSub(step.result.new_sphere_rotations[i][j], step.spheres[i].R)

\* C11 as stated: for every sphere whose angular velocity is exactly zero,
\* euler_timestep_rotation leaves the offset of each of its two markers from
\* the centre unchanged, for every offset, one on the z-axis and a zero one
\* included.
C11_OffsetsKeptAtRest ==
    step.op = "euler_timestep_rotation"
    => \A i \in AtRest : \A j \in 0..1 :
          /\ step.result.new_sphere_rotations[i][j] # NaN
          /\ NewOffset(i, j) = step.spheres[i].offsets[j + 1]

\* C11 amended: for every sphere whose angular velocity is exactly zero,
\* euler_timestep_rotation leaves every nonzero offset of a marker from the
\* centre unchanged, one on the z-axis included; a marker at the centre
\* itself comes back as nan.
C11_NonzeroOffsetsKeptAtRest ==
    step.op = "euler_timestep_rotation"
    => \A i \in AtRest : \A j \in 0..1 :
          IF step.spheres[i].offsets[j + 1] = ZeroVec
          THEN step.result.new_sphere_rotations[i][j] = NaN
          ELSE /\ step.result.new_sphere_rotations[i][j] # NaN
               /\ NewOffset(i, j) = step.spheres[i].offsets[j + 1]

\* C11 witness: a sphere at rest whose centre moved, with a marker below it on
\* the z-axis, and the marker moved with the centre
C11_Witness ==
    /\ step.op = "euler_timestep_rotation"
    /\ 0 \in AtRest
    /\ step.spheres[0].R # step.spheres[0].R0
    /\ step.spheres[0].offsets[1] = IntVec(<<0, 0, -2>>)
    /\ step.result.new_sphere_rotations[0][0]
           = VecAdd(step.spheres[0].R, IntVec(<<0, 0, -2>>))

\* C12: ab2_timestep(x, u, u_previous, dt) is x + dt * (1.5 u - 0.5 u_previous),
\* which is euler_timestep(x, u, dt) = x + dt * u when u_previous = u; and
\* ab2_timestep_rotation with Oa_out_previous = Oa_out gives the markers of
\* euler_timestep_rotation with Oa_out.
C12_AB2ReducesToEuler ==
    /\ step.op = "euler_timestep"
       => RatSub(step.result, step.x) = RatMul(step.timestep, step.u)
    /\ step.op = "ab2_timestep"
       => /\ RatMul(<<2, 1>>, RatSub(step.result, step.x))
                = RatMul(step.timestep,
                         RatSub(RatMul(<<3, 1>>, step.u), step.u_previous))
          /\ step.u_previous = step.u
             => step.result = euler_timestep(step.x, step.u, step.timestep)
    /\ (step.op = "ab2_timestep_rotation" /\ step.Oa_out_previous = step.Oa_out)
       => step.result.new_sphere_rotations
              = euler_timestep_rotation(
                    sphere_positions_of(step.spheres), sphere_rotations_of(step.spheres),
                    new_sphere_positions_of(step.spheres), step.Oa_out,
                    step.timestep).new_sphere_rotations

\* C12 witness: an Adams-Bashforth rotation update of a turning sphere whose
\* angular velocity was the same the step before
C12_Witness ==
    /\ step.op = "ab2_timestep_rotation"
    /\ step.Oa_out_previous = step.Oa_out
    /\ step.Oa_out[0] # ZeroVec
    /\ step.result.new_sphere_rotations[0][1][1] = "turned"

\* the spheres of the last Euler rotation update that turn
Turning == {i \in DOMAIN step.spheres : step.Oa_out[i] # ZeroVec}

\* the square of the length of column k of a matrix
ColumnLengthSquared(rot, k) ==
    LET c == VecDot(rot.columns[k], rot.columns[k])
    IN  IF rot.O_power[k] = 2
        THEN RatDiv(c, RatMul(rot.O_squared, rot.O_squared))
        ELSE RatDiv(c, rot.O_squared)

ColumnsOrthogonal(rot) ==
    /\ VecDot(rot.columns[1], rot.columns[2]) = Zero
    /\ VecDot(rot.columns[1], rot.columns[3]) = Zero
    /\ VecDot(rot.columns[2], rot.columns[3]) = Zero

C14_SplitOutputs ==
    (/\ call.pc = "done"
     /\ call.args.input_form \in {"ufte", "ufteu", "duf"}
     /\ ~call.args.extract_force_on_wall_due_to_dumbbells
     /\ call.result.status = "returned")
    => LET b == call.args.first
           r == call.result
           n == call.args.num_spheres
           m == call.args.num_dumbbells
           k == Cardinality({i \in All(n) : b.Ua_in[i] # Pippa})
           kb == Cardinality({i \in All(m) : b.Ub_in[i] # Pippa})
       IN  /\ PartitionsSpheres(call.args.input_form)
              => /\ DOMAIN r.Fa_out = All(n) /\ DOMAIN r.Ua_out = All(n)
                 /\ \A i \in All(n) :
                       /\ r.Ua_out[i] = IF i < k THEN b.Ua_in[i] ELSE <<"solved", 1, i>>
                       /\ r.Fa_out[i] = IF i < k THEN <<"solved", 1, i>> ELSE b.Fa_in[i]
                       /\ r.Ua_out[i] \notin {Chen, Pippa}
                       /\ r.Fa_out[i] \notin {Chen, Pippa}
           /\ PartitionsDumbbells(call.args.input_form)
              => /\ DOMAIN r.Fb_out = All(m) /\ DOMAIN r.Ub_out = All(m)
                 /\ DOMAIN r.DFb_out = All(m) /\ DOMAIN r.HalfDUb_out = All(m)
                 /\ \A i \in All(m) :
                       /\ r.Ub_out[i] = IF i < kb THEN b.Ub_in[i] ELSE <<"solved", 4, i>>
                       /\ r.Fb_out[i] = IF i < kb THEN <<"solved", 4, i>> ELSE b.Fb_in[i]
                       /\ r.HalfDUb_out[i]
                              = IF i < kb THEN b.HalfDUb_in[i] ELSE <<"solved", 5, i>>
                       /\ r.DFb_out[i] = IF i < kb THEN <<"solved", 5, i>> ELSE b.DFb_in[i]
                       /\ {r.Ub_out[i], r.Fb_out[i], r.HalfDUb_out[i], r.DFb_out[i]}
                              \cap {Chen, Pippa} = {}

\* C14 witness: a ufteu call without extraction that returned, with one
\* sphere of prescribed velocity before one of prescribed force, and a dumbbell
C14_Witness ==
    /\ call.pc = "done"
    /\ call.args.input_form = "ufteu"
    /\ ~call.args.extract_force_on_wall_due_to_dumbbells
    /\ call.args.num_spheres = 2
    /\ call.args.num_dumbbells = 1
    /\ call.args.first.Ua_in[0] # Pippa
    /\ call.args.first.Ua_in[1] = Pippa
    /\ call.result.status = "returned"

Generators ==
    {"generate_grand_resistance_matrix", "generate_grand_resistance_matrix_periodic"}

Reorderings ==
    {"fts_to_fte_matrix", "fte_to_ufte_matrix", "ufte_to_ufteu_matrix", "fts_to_duf_matrix"}

LinearSolves == {"np.linalg.solve", "np.linalg.inv"}

SupplierCalls ==
    {"input_ftsuoe(skip_computation=True)", "input_ftsuoe(grand_resistance_matrix_fte)"}

CountCalls(result, S) ==
    Cardinality({i \in 1..Len(result.calls) : result.calls[i] \in S})

\* where the one call of `what` is among the calls made
Position(result, what) == CHOOSE i \in 1..Len(result.calls) : result.calls[i] = what

\* C15: in stokes_drag_dumbbells_only mode a call never invokes the matrix
\* generator, a reordering transform or a linear solve, and returns the
\* far-field cache unchanged; in every other mode the generator is invoked
\* exactly once, the periodic one exactly when the box corners differ.
C15_GeneratorOnlyInMatrixModes ==
    call.pc = "done"
    => IF call.args.input_form = "stokes_drag_dumbbells_only"
       THEN /\ CountCalls(call.result, Generators \cup Reorderings \cup LinearSolves) = 0
            /\ call.result.status = "returned"
            /\ call.result.last_generated_Minfinity_inverse
                   = call.args.last_generated_Minfinity_inverse
       ELSE /\ CountCalls(call.result, Generators) = 1
            /\ InCalls(call.result, "generate_grand_resistance_matrix_periodic")
                   <=> call.args.first.periodic

\* C16: the supplier is first invoked in skip-computation mode, before any
\* matrix generation; in fte mode it is invoked a second time, in full, after
\* the matrix was generated and reordered to FTE and before the excitation
\* vector is built and solved, and the inputs of that second invocation are
\* the ones solved with and echoed; it is never invoked more than twice.
C16_SupplierCalls ==
    call.pc = "done"
    => LET r == call.result
           a == call.args
       IN  /\ r.calls[1] = "input_ftsuoe(skip_computation=True)"
           /\ \A i \in 1..Len(r.calls) : r.calls[i] \in Generators => i > 1
           /\ CountCalls(r, SupplierCalls) <= 2
           /\ CountCalls(r, {"input_ftsuoe(skip_computation=True)"}) = 1
           /\ a.input_form # "fte" => CountCalls(r, SupplierCalls) = 1
           /\ a.input_form = "fte"
              => /\ CountCalls(r, {"input_ftsuoe(grand_resistance_matrix_fte)"}) = 1
                 /\ CountCalls(r, Generators) = 1
                 /\ \E g \in Generators :
                       /\ InCalls(r, g)
                       /\ Position(r, g) < Position(r, "fts_to_fte_matrix")
                 /\ Position(r, "fts_to_fte_matrix") + 1
                        = Position(r, "input_ftsuoe(grand_resistance_matrix_fte)")
                 /\ Position(r, "input_ftsuoe(grand_resistance_matrix_fte)") + 1
                        = Position(r, "construct_force_vector_from_fts")
                 /\ InCalls(r, "np.linalg.solve")
                    => Position(r, "construct_force_vector_from_fts")
                           < Position(r, "np.linalg.solve")
                 \* the second invocation's inputs decide, and are echoed
                 /\ r.status = "returned"
                    <=> \A k \in 1..5 : ~AnyUnset(ExcitationLists(a)[k])
                 /\ r.status = "returned"
                    => /\ r.Fa_out = a.second.Fa_in /\ r.Ta_out = a.second.Ta_in
                       /\ r.Ea_out = a.second.Ea_in /\ r.Fb_out = a.second.Fb_in
                       /\ r.DFb_out = a.second.DFb_in

\* C16 witness: an fte call whose first, skip-computation inputs had no
\* forces, whose second had them, and which returned the second's
C16_Witness ==
    /\ call.pc = "done"
    /\ call.args.input_form = "fte"
    /\ call.args.num_spheres >= 1
    /\ AnyUnset(call.args.first.Fa_in)
    /\ ~AnyUnset(call.args.second.Fa_in)
    /\ call.result.status = "returned"
    /\ call.result.Fa_out = call.args.second.Fa_in

\* C17: in every mode that uses the matrix generator, the solve timer is
\* started only after the generator has returned and stopped after the solve
\* and the reconstruction of the outputs; exactly one duration is appended per
\* call, as the last element of the returned timing list, which in
\* stokes_drag_dumbbells_only mode is [0, 0, 0, duration].
C17_SolveTimer ==
    call.pc = "done"
    => LET r == call.result
       IN  IF call.args.input_form = "stokes_drag_dumbbells_only"
           THEN /\ r.status = "returned"
                /\ r.gen_times = <<"0", "0", "0", "elapsed_solve_time">>
           ELSE /\ CountCalls(r, {"solve_time_start"}) = 1
                /\ \A i \in 1..Len(r.calls) :
                      r.calls[i] \in Generators => i < Position(r, "solve_time_start")
                /\ r.status = "returned"
                   => /\ CountCalls(r, {"elapsed_solve_time"}) = 1
                      /\ r.calls[Len(r.calls)] = "elapsed_solve_time"
                      /\ Position(r, "np.linalg.solve")
                             < Position(r, "deconstruct_velocity_vector_for_fts")
                      /\ Position(r, "solve_time_start") < Position(r, "np.linalg.solve")
                      /\ r.gen_times
                             = <<"gen_time", "gen_time", "gen_time", "elapsed_solve_time">>

(***************************************************************************)
(* Claims about the chain of diagnostic checks                             *)
(***************************************************************************)
\* C18: in any sequence of the three diagnostic checks in which each call
\* receives the flag the one before returned, a flag that is True is never
\* returned as False; and are_some_of_the_particles_too_close always returns
\* exactly the flag it was given, whatever the printout level.
C18_FlagIsSticky ==
    /\ \A k \in 1..Len(chain) :
          /\ k > 1 => chain[k].error_in = chain[k - 1].error_out
          /\ (chain[k].status = "returned" /\ chain[k].error_in) => chain[k].error_out
          /\ chain[k].op = "are_some_of_the_particles_too_close"
             => /\ chain[k].status = "returned"
                /\ chain[k].error_out = chain[k].error_in
    /\ \A j \in 1..Len(chain) : \A k \in j..Len(chain) :
          (chain[j].error_out /\ chain[k].status = "returned") => chain[k].error_out
    /\ Len(chain) > 0 => error = chain[Len(chain)].error_out

\* C18 witness: the size-ratio check raised the flag, and the two other
\* checks, which found nothing, returned it still raised
C18_Witness ==
    /\ Len(chain) = 3
    /\ chain[1].op = "do_we_have_all_size_ratios"
    /\ ~chain[1].error_in
    /\ chain[1].error_out
    /\ chain[2].op = "are_some_of_the_particles_too_close"
    /\ chain[3].op = "did_something_go_wrong_with_dumbells"
    /\ chain[3].status = "returned"
    /\ chain[3].error_out

====
